---- MODULE Spec2Model ----
(***************************************************************************)
(* A model of the price optimiser: the demand estimator, the golden        *)
(* section search and the orchestration of golden_section.py, the product  *)
(* extraction loop of scrape.py and the task registry of app.py.           *)
(*                                                                         *)
(* Numbers.  A Python float is an IEEE 754 binary64 value, and the model   *)
(* computes with the same values: a float is the record                    *)
(* [sign, exp, man] that stands for sign * man * 2^exp, where sign is 1 or *)
(* -1 and man is a whole number of 53 bits (2^52 <= man < 2^53, or 0 with  *)
(* exp = 0 for the two zeros), written as four limbs of 14 bits, the least *)
(* significant first.  DblAdd, DblSub and DblMul compute the exact sum,    *)
(* difference and product and round it to the nearest float, ties to the   *)
(* even mantissa, as the hardware does.  Infinities, NaN and subnormal     *)
(* numbers do not arise from the inputs of the model and are not           *)
(* represented; a missing rating is the value NaN.  Whole numbers of the   *)
(* program (an int cost or demand, a list of whole prices) are integers    *)
(* and become floats where the program converts them.  A fitted slope is   *)
(* the exact least squares fraction rounded once to a float, and the test  *)
(* of the intercept against 0.05 is made on the exact fraction: the        *)
(* last-bit rounding errors of the LAPACK solver are not modelled.         *)
(***************************************************************************)
EXTENDS Integers, Sequences, FiniteSets

(***************************************************************************)
(* Bounds of the model and constants of the program                        *)
(***************************************************************************)
MaxLen == 2                     \* longest list of samples
MaxProducts == 2                \* most product elements on the fetched pages
MaxRequests == 2                \* most optimisation requests
MaxCountSteps == 6              \* sample counts above 1000, in steps of five
LimbBits == 14                  \* bits of one limb of a mantissa
MantBits == 53                  \* bits of the mantissa of a float
FracLimbs == 9                  \* limbs of a quotient that are computed before rounding
MaxIter == 100                  \* "iteration < 100"
TolInverse == 1000              \* tol=1e-3 = 1 / TolInverse
InterceptThresholdInv == 20     \* abs(intercept) < 0.05 = 1 / 20
FloorDemand == 100              \* max(100, ...) of the default demand
DemandDivisor == 10             \* int(len(prices) * 0.1)
CostTenths == 7                 \* min(prices) * 0.7 = CostTenths / 10
FallbackHigh == 1000            \* highest_price = 1000
FallbackCost == 10              \* cost = ... else 10
NaN == -1                       \* a missing rating (dropped by dropna)

PriceVals == {5, 8}             \* sample prices
RatingVals == {NaN, 0, 1, 2}    \* sample ratings
CostVals == {4}                 \* costs (int(form['cost']))
DemandVals == {0, 50}           \* supplied max_theoretical_demand values
BracketVals == {0, 2, 7}        \* brackets of a direct search

None == <<>>                    \* Python's None
Some(v) == <<v>>                \* a value that is not None
Val(o) == o[1]

Max(x, y) == IF x >= y THEN x ELSE y
Abs(x) == IF x < 0 THEN -x ELSE x

RECURSIVE SeqsUpTo(_, _)
SeqsUpTo(S, n) ==
    IF n = 0 THEN {<<>>}
    ELSE LET shorter == SeqsUpTo(S, n - 1)
         IN  shorter \cup {Append(s, v) : s \in {t \in shorter : Len(t) = n - 1}, v \in S}

\* The sum of f over the indices of I that lie in lo..hi, by halves.
RECURSIVE SumBetween(_, _, _, _)
SumBetween(f, I, lo, hi) ==
    IF lo > hi THEN 0
    ELSE IF lo = hi THEN (IF lo \in I THEN f[lo] ELSE 0)
    ELSE LET mid == (lo + hi) \div 2
         IN  SumBetween(f, I, lo, mid) + SumBetween(f, I, mid + 1, hi)

\* The sum of f over the set I of positions of a list of n entries.
SumOver(f, I, n) == SumBetween(f, I, 1, n)

SeqMin(s) == CHOOSE v \in {s[i] : i \in DOMAIN s} : \A i \in DOMAIN s : v <= s[i]
SeqMax(s) == CHOOSE v \in {s[i] : i \in DOMAIN s} : \A i \in DOMAIN s : v >= s[i]

(***************************************************************************)
(* Whole numbers of any size: sequences of limbs, least significant first  *)
(***************************************************************************)
Base == 2^LimbBits

Limb(n, i) == IF i >= 1 /\ i <= Len(n) THEN n[i] ELSE 0
IsZeroNat(n) == \A i \in DOMAIN n : n[i] = 0
LongerLen(x, y) == IF Len(x) > Len(y) THEN Len(x) ELSE Len(y)

\* The limbs of the number whose columns (any integers) are cols.
RECURSIVE Carry(_, _, _)
Carry(cols, i, c) ==
    IF i > Len(cols) THEN <<c>>
    ELSE LET v == cols[i] + c
         IN  <<v % Base>> \o Carry(cols, i + 1, v \div Base)

AddNat(x, y) == Carry([i \in 1..LongerLen(x, y) |-> Limb(x, i) + Limb(y, i)], 1, 0)
\* x - y for x >= y
SubNat(x, y) == Carry([i \in 1..LongerLen(x, y) |-> Limb(x, i) - Limb(y, i)], 1, 0)
LessNat(x, y) ==
    \E i \in 1..LongerLen(x, y) :
        /\ Limb(x, i) < Limb(y, i)
        /\ \A j \in (i + 1)..LongerLen(x, y) : Limb(x, j) = Limb(y, j)
\* The product of two numbers of four limbs.
MulNat(x, y) ==
    Carry(<<x[1] * y[1],
            x[1] * y[2] + x[2] * y[1],
            x[1] * y[3] + x[2] * y[2] + x[3] * y[1],
            x[1] * y[4] + x[2] * y[3] + x[3] * y[2] + x[4] * y[1],
            x[2] * y[4] + x[3] * y[3] + x[4] * y[2],
            x[3] * y[4] + x[4] * y[3],
            x[4] * y[4]>>, 1, 0)

\* n * 2^k and the whole part of n / 2^k
ShiftLeft(n, k) ==
    LET q == k \div LimbBits
        r == k % LimbBits
    IN  [i \in 1..(Len(n) + q + 1) |->
            (Limb(n, i - q) % 2^(LimbBits - r)) * 2^r
              + (Limb(n, i - q - 1) \div 2^(LimbBits - r))]
ShiftRight(n, k) ==
    LET q == k \div LimbBits
        r == k % LimbBits
    IN  [i \in 1..Len(n) |->
            (Limb(n, i + q) \div 2^r)
              + (Limb(n, i + q + 1) % 2^r) * 2^(LimbBits - r)]
\* Bit p of n (bit 0 is the lowest), and "the bits below p are all 0".
Bit(n, p) == (Limb(n, p \div LimbBits + 1) \div 2^(p % LimbBits)) % 2
LowZero(n, p) ==
    /\ \A i \in 1..(p \div LimbBits) : Limb(n, i) = 0
    /\ Limb(n, p \div LimbBits + 1) % 2^(p % LimbBits) = 0

\* The number of bits of n # 0.
TopLimb(n) == CHOOSE i \in DOMAIN n : n[i] # 0 /\ \A j \in DOMAIN n : j > i => n[j] = 0
LimbLength(v) == CHOOSE k \in 1..LimbBits : 2^(k - 1) <= v /\ v < 2^k
BitLength(n) == (TopLimb(n) - 1) * LimbBits + LimbLength(n[TopLimb(n)])

\* The limbs of an integer 0 <= n < 2^31.
IntNat(n) == <<n % Base, (n \div Base) % Base, n \div (Base * Base)>>

(***************************************************************************)
(* Python floats (IEEE 754 binary64, round to nearest, ties to even)       *)
(***************************************************************************)
DblZero(s) == [sign |-> s, exp |-> 0, man |-> <<0, 0, 0, 0>>]
Zero == DblZero(1)
IsZero(x) == x.man = <<0, 0, 0, 0>>
Man4(n) == <<Limb(n, 1), Limb(n, 2), Limb(n, 3), Limb(n, 4)>>

\* The float nearest to s * n * 2^e, for a whole number n of any size.
Round(s, n, e) ==
    IF IsZeroNat(n) THEN DblZero(s)
    ELSE LET len == BitLength(n)
         IN  IF len <= MantBits
             THEN [sign |-> s, exp |-> e - (MantBits - len),
                   man |-> Man4(ShiftLeft(n, MantBits - len))]
             ELSE LET k == len - MantBits
                      q == Man4(ShiftRight(n, k))
                      \* more than half, or half with an odd mantissa
                      up == Bit(n, k - 1) = 1 /\ (~LowZero(n, k - 1) \/ Bit(n, k) = 1)
                      q1 == Carry(<<q[1] + 1, q[2], q[3], q[4]>>, 1, 0)
                  IN  IF ~up THEN [sign |-> s, exp |-> e + k, man |-> q]
                      ELSE IF q1[4] = 2^(MantBits - 3 * LimbBits)
                      THEN [sign |-> s, exp |-> e + k + 1,
                            man |-> <<0, 0, 0, 2^(MantBits - 3 * LimbBits - 1)>>]
                      ELSE [sign |-> s, exp |-> e + k, man |-> Man4(q1)]

\* -x and abs(x)
DblNeg(x) == [x EXCEPT !.sign = -x.sign]
DblAbs(x) == [x EXCEPT !.sign = 1]

\* x * y
DblMul(x, y) ==
    IF IsZero(x) \/ IsZero(y) THEN DblZero(x.sign * y.sign)
    ELSE Round(x.sign * y.sign, MulNat(x.man, y.man), x.exp + y.exp)

\* x + y.  A term more than 55 binary places below the other is less than a
\* quarter of its last place and does not change it.
DblAdd(x, y) ==
    IF IsZero(x) /\ IsZero(y)
    THEN DblZero(IF x.sign = -1 /\ y.sign = -1 THEN -1 ELSE 1)
    ELSE IF IsZero(x) THEN y
    ELSE IF IsZero(y) THEN x
    ELSE LET big == IF x.exp >= y.exp THEN x ELSE y
             small == IF x.exp >= y.exp THEN y ELSE x
             d == big.exp - small.exp
         IN  IF d > MantBits + 2 THEN big
             ELSE LET B == ShiftLeft(big.man, d)
                      S == small.man
                  IN  IF big.sign = small.sign
                      THEN Round(big.sign, AddNat(B, S), small.exp)
                      ELSE IF LessNat(B, S) THEN Round(small.sign, SubNat(S, B), small.exp)
                      ELSE IF LessNat(S, B) THEN Round(big.sign, SubNat(B, S), small.exp)
                      ELSE Zero

\* x - y
DblSub(x, y) == DblAdd(x, DblNeg(y))

\* x / 2
DblHalf(x) == IF IsZero(x) THEN x ELSE [x EXCEPT !.exp = x.exp - 1]

\* x < y (the two zeros are equal)
DblLess(x, y) ==
    IF IsZero(x) /\ IsZero(y) THEN FALSE
    ELSE IF IsZero(x) THEN y.sign = 1
    ELSE IF IsZero(y) THEN x.sign = -1
    ELSE IF x.sign # y.sign THEN x.sign = -1
    ELSE IF x.sign = 1
    THEN x.exp < y.exp \/ (x.exp = y.exp /\ LessNat(x.man, y.man))
    ELSE x.exp > y.exp \/ (x.exp = y.exp /\ LessNat(y.man, x.man))

\* x == y
DblEqual(x, y) == ~DblLess(x, y) /\ ~DblLess(y, x)

\* float(n) for an int n
FromInt(n) == IF n >= 0 THEN Round(1, IntNat(n), 0) ELSE Round(-1, IntNat(-n), 0)
One == FromInt(1)

\* int(x) for a float x with |x| < 2^31: the whole part, the fraction dropped
DblInt(x) ==
    IF IsZero(x) \/ x.exp >= 0 THEN 0
    ELSE LET w == ShiftRight(x.man, -x.exp)
         IN  x.sign * (w[1] + w[2] * Base + w[3] * Base * Base)

\* k bits of the fraction r / d (0 <= r < d < 2^30): <<the bits, the remainder>>.
RECURSIVE QuotBits(_, _, _, _)
QuotBits(r, d, k, acc) ==
    IF k = 0 THEN <<acc, r>>
    ELSE IF 2 * r >= d THEN QuotBits(2 * r - d, d, k - 1, 2 * acc + 1)
    ELSE QuotBits(2 * r, d, k - 1, 2 * acc)

\* k limbs of the fraction r / d, the most significant first, and a last
\* limb that is 1 if a remainder is left.
RECURSIVE QuotLimbs(_, _, _)
QuotLimbs(r, d, k) ==
    IF k = 0 THEN <<IF r = 0 THEN 0 ELSE 1>>
    ELSE LET qb == QuotBits(r, d, LimbBits, 0)
         IN  <<qb[1]>> \o QuotLimbs(qb[2], d, k - 1)

\* The float nearest to n / d, for integers n and 0 < d < 2^30: the decimal
\* literal n/d of the source, or the quotient of two floats that are whole.
FromRatio(n, d) ==
    LET m == IF n >= 0 THEN n ELSE -n
        frac == QuotLimbs(m % d, d, FracLimbs)
        last == frac[FracLimbs]
        \* the quotient times Base^FracLimbs, its lowest bit set if it is inexact
        low == [i \in 1..FracLimbs |->
                   IF i = 1
                   THEN IF frac[FracLimbs + 1] = 1 THEN last - (last % 2) + 1 ELSE last
                   ELSE frac[FracLimbs + 1 - i]]
    IN  Round(IF n >= 0 THEN 1 ELSE -1, low \o IntNat(m \div d), -(FracLimbs * LimbBits))

\* np.sqrt(n) for a whole n with 4 <= n < 16: the root lies in [2, 4), so its
\* mantissa is the whole part of sqrt(n * 2^102), found bit by bit, and is
\* rounded up if the root is above the midpoint to the next mantissa.
SqrtTarget(n) == ShiftLeft(IntNat(n), 2 * (MantBits - 2))
RECURSIVE SqrtBits(_, _, _)
SqrtBits(target, acc, bit) ==
    IF bit < 0 THEN acc
    ELSE LET cand == Man4(AddNat(acc, ShiftLeft(<<1>>, bit)))
         IN  IF LessNat(target, MulNat(cand, cand))
             THEN SqrtBits(target, acc, bit - 1)
             ELSE SqrtBits(target, cand, bit - 1)
DblSqrt(n) ==
    LET target == SqrtTarget(n)
        root == SqrtBits(target, <<0, 0, 0, 0>>, MantBits - 1)
        \* (root + 1/2)^2 < target  iff  target - root^2 > root
        up == LessNat(root, SubNat(target, MulNat(root, root)))
    IN  [sign |-> 1, exp |-> -(MantBits - 2),
         man |-> IF up THEN Man4(AddNat(root, <<1>>)) ELSE root]

(***************************************************************************)
(* golden_section.py: the demand estimator                                 *)
(***************************************************************************)
\* get_price_range: (lowest_price, highest_price)
get_price_range(prices) ==
    IF prices # <<>>
    THEN <<SeqMin(prices), SeqMax(prices)>>
    ELSE <<0, FallbackHigh>>

\* The default with the tenth rounded to the nearest integer, not truncated.
DefaultMaxDemand_Rounded(n) ==
    Max(FloorDemand, (2 * n + DemandDivisor) \div (2 * DemandDivisor))

\* The literal 0.1 of "len(prices) * 0.1"
DefaultDemandFactor == FromRatio(1, DemandDivisor)

\* "if max_theoretical_demand is None: max(100, int(len(prices) * 0.1))":
\* the float product, truncated by int()
DefaultMaxDemand(n) ==
    Max(FloorDemand, DblInt(DblMul(FromInt(n), DefaultDemandFactor)))

\* The rows data.dropna() keeps.
ValidRows(prices, ratings) == {i \in DOMAIN prices : ratings[i] # NaN}

\* LinearRegression().fit(X, y) on the rows I, where y = 1 - rating / M and
\* M is the largest rating: the ordinary least squares line, its slope and
\* intercept as exact fractions.  A constant price column has slope 0.
FitWithIntercept(prices, ratings, I, M) ==
    LET n   == Cardinality(I)
        yn  == [i \in I |-> M - ratings[i]]         \* y[i] = yn[i] / M
        Sx  == SumOver([i \in I |-> prices[i]], I, Len(prices))
        Sy  == SumOver(yn, I, Len(prices))
        Sxx == SumOver([i \in I |-> prices[i] * prices[i]], I, Len(prices))
        Sxy == SumOver([i \in I |-> prices[i] * yn[i]], I, Len(prices))
        D   == n * Sxx - Sx * Sx
        N   == n * Sxy - Sx * Sy
    IN  IF D > 0
        THEN [coef_num |-> N, coef_den |-> M * D,
              int_num |-> Sy * D - N * Sx, int_den |-> n * M * D]
        ELSE [coef_num |-> 0, coef_den |-> 1,
              int_num |-> Sy, int_den |-> n * M]

\* LinearRegression(fit_intercept=False).fit(X, y): the line through the origin.
FitWithoutIntercept(prices, ratings, I, M) ==
    LET yn  == [i \in I |-> M - ratings[i]]
        Sxx == SumOver([i \in I |-> prices[i] * prices[i]], I, Len(prices))
        Sxy == SumOver([i \in I |-> prices[i] * yn[i]], I, Len(prices))
    IN  IF Sxx > 0
        THEN [coef_num |-> Sxy, coef_den |-> M * Sxx, int_num |-> 0, int_den |-> 1]
        ELSE [coef_num |-> 0, coef_den |-> 1, int_num |-> 0, int_den |-> 1]

\* "if abs(intercept) < 0.05" chooses the model without intercept.
ChooseModel(prices, ratings, I, M) ==
    LET with == FitWithIntercept(prices, ratings, I, M)
    IN  IF InterceptThresholdInv * Abs(with.int_num) < with.int_den
        THEN FitWithoutIntercept(prices, ratings, I, M)
        ELSE with

\* model.coef_[0]: the fitted slope, a float
Slope(model) == FromRatio(model.coef_num, model.coef_den)

\* "a_d = max_theoretical_demand" (an int) and the two branches that set b_d
\* (a float).
DemandRecord(model, demand) ==
    [a_d |-> demand,
     b_d |-> IF model.coef_num < 0
             THEN DblMul(DblAbs(Slope(model)), FromInt(demand))
             ELSE DblMul(Slope(model), FromInt(demand))]

\* estimate_demand_parameters without "if len(prices) != len(ratings)": the
\* rows are those both lists have.
estimate_demand_parameters_NoLengthCheck(prices, ratings, max_theoretical_demand) ==
    IF prices = <<>> \/ ratings = <<>> THEN None
    ELSE LET I == {i \in DOMAIN prices \cap DOMAIN ratings : ratings[i] # NaN}
         IN  IF I = {} THEN None
             ELSE LET M == SeqMax([i \in 1..Len(ratings) |->
                                      IF i \in I THEN ratings[i] ELSE 0])
                  IN  IF M = 0 THEN None
                      ELSE LET demand == IF max_theoretical_demand = None
                                         THEN DefaultMaxDemand(Len(prices))
                                         ELSE Val(max_theoretical_demand)
                           IN  Some(DemandRecord(ChooseModel(prices, ratings, I, M), demand))

\* estimate_demand_parameters: None, or Some([a_d, b_d]).  The r2, model and
\* intercept entries of the returned dict are not modelled.
estimate_demand_parameters(prices, ratings, max_theoretical_demand) ==
    IF prices = <<>> \/ ratings = <<>> THEN None
    ELSE IF Len(prices) # Len(ratings) THEN None
    ELSE LET I == ValidRows(prices, ratings)
         IN  IF I = {} THEN None
             ELSE LET M == SeqMax([i \in 1..Len(ratings) |->
                                      IF i \in I THEN ratings[i] ELSE 0])
                  IN  \* rating / 0 is NaN and fit() raises: "except: return None"
                      IF M = 0 THEN None
                      ELSE LET demand == IF max_theoretical_demand = None
                                         THEN DefaultMaxDemand(Len(prices))
                                         ELSE Val(max_theoretical_demand)
                           IN  Some(DemandRecord(ChooseModel(prices, ratings, I, M), demand))

(***************************************************************************)
(* golden_section.py: demand, profit and the search                        *)
(***************************************************************************)
\* talep_fonksiyonu without the floor at zero
talep_fonksiyonu_NoFloor(f, a_d, b_d) == DblSub(FromInt(a_d), DblMul(b_d, f))

\* max(0, a_d - b_d * f): the difference if it is greater than 0, else 0
talep_fonksiyonu(f, a_d, b_d) ==
    LET demand == DblSub(FromInt(a_d), DblMul(b_d, f))
    IN  IF DblLess(Zero, demand) THEN demand ELSE Zero

\* (f - C) * talep_fonksiyonu(f, a_d, b_d)
kar_fonksiyonu(f, C, a_d, b_d) == DblMul(DblSub(f, C), talep_fonksiyonu(f, a_d, b_d))

\* profit_function, the closure over cost, a_d and b_d
profit_function(fn, price) == kar_fonksiyonu(price, fn.C, fn.a_d, fn.b_d)

\* phi = (np.sqrt(5) - 1) / 2
Phi == DblHalf(DblSub(DblSqrt(5), One))

\* phi * w
PhiTimes(w) == DblMul(Phi, w)

\* "b - phi * (b - a)" and "a + phi * (b - a)"
InteriorLow(lo, hi) == DblSub(hi, PhiTimes(DblSub(hi, lo)))
InteriorHigh(lo, hi) == DblAdd(lo, PhiTimes(DblSub(hi, lo)))

\* "(a + b) / 2"
Midpoint(lo, hi) == DblHalf(DblAdd(lo, hi))

\* tol=1e-3
DefaultTol == FromRatio(1, TolInverse)

\* The loop condition with "iteration <= 100"
LoopCondition_OffByOne(lo, hi, t, it) ==
    DblLess(t, DblAbs(DblSub(hi, lo))) /\ it <= MaxIter

\* The loop condition with "abs(b - a) >= tol"
LoopCondition_Inclusive(lo, hi, t, it) ==
    ~DblLess(DblAbs(DblSub(hi, lo)), t) /\ it < MaxIter

\* "abs(b - a) > tol and iteration < 100"
LoopCondition(lo, hi, t, it) ==
    DblLess(t, DblAbs(DblSub(hi, lo))) /\ it < MaxIter

\* "if f1 >= f2": a tie shrinks from the right
ShrinkFromRight_OnTie(v1, v2) == ~DblLess(v1, v2)

\* "if f1 > f2"
ShrinkFromRight(v1, v2) == DblLess(v2, v1)

(***************************************************************************)
(* State                                                                   *)
(***************************************************************************)
VARIABLES
    entry,                   \* the function that was called
    prices, ratings,         \* run_optimization's sample lists (whole numbers)
    cost,                    \* None or Some(cost), an int
    max_theoretical_demand,  \* None or Some(demand), an int
    pc,                      \* position of the call
    params,                  \* None or Some(the estimator's record)
    func,                    \* the function being maximised: [C, a_d, b_d]
    low, high,               \* the bracket the search is called with (ints)
    tol,                     \* the tolerance it is called with (a float)
    a, b,                    \* the bracket as the search narrows it (floats)
    x1, x2, f1, f2,          \* the interior points and their values (floats)
    iteration,               \* the loop counter
    evals,                   \* how many times func has been called
    gss_invoked,             \* golden_section_search has been entered
    gss_result,              \* None or Some(<<optimal_x, maximum_value, iteration>>)
    result                   \* run_optimization's return value: None or Some(record)

NoFunc == [C |-> Zero, a_d |-> 0, b_d |-> Zero]

\* The locals of a search that has not started.
SearchIdle ==
    /\ a = Zero /\ b = Zero
    /\ x1 = Zero /\ x2 = Zero /\ f1 = Zero /\ f2 = Zero
    /\ iteration = 0 /\ evals = 0
    /\ gss_invoked = FALSE /\ gss_result = None

optVars == <<entry, prices, ratings, cost, max_theoretical_demand, pc, params,
             func, low, high, tol, a, b, x1, x2, f1, f2, iteration, evals,
             gss_invoked, gss_result, result>>

\* search_product (scrape.py)
VARIABLES
    scrape_pc,               \* position in search_product
    pro,                     \* the product elements of the fetched pages
    product,                 \* index of the element the loop is at
    scraped_ratings,         \* the local list "ratings"
    scraped_prices,          \* the local list "prices"
    search_result            \* None or Some([prices, ratings]), lists of floats

scrapeVars == <<scrape_pc, pro, product, scraped_ratings, scraped_prices,
                search_result>>

\* The task registry and the threads of app.py
VARIABLES
    tasks,                   \* the dict "tasks": task id -> record
    form,                    \* per request, the posted form
    handler_pc,              \* per request, position in optimize()
    worker_pc,               \* per request, position in run_background_task
    worker_data,             \* per request, None or Some([prices, ratings]),
                             \* what search_product returned
    worker_error             \* per request, the exception the worker caught

appVars == <<tasks, form, handler_pc, worker_pc, worker_data, worker_error>>

vars == <<optVars, scrapeVars, appVars>>

OptIdle ==
    /\ entry = "none" /\ prices = <<>> /\ ratings = <<>> /\ cost = None
    /\ max_theoretical_demand = None /\ pc = "idle" /\ params = None
    /\ func = NoFunc /\ low = 0 /\ high = 0 /\ tol = Zero
    /\ SearchIdle
    /\ result = None

ScrapeIdle ==
    /\ scrape_pc = "idle" /\ pro = <<>> /\ product = 0
    /\ scraped_ratings = <<>> /\ scraped_prices = <<>> /\ search_result = None

AppIdle ==
    /\ tasks = <<>> /\ form = <<>> /\ handler_pc = <<>> /\ worker_pc = <<>>
    /\ worker_data = <<>> /\ worker_error = <<>>

\* The components a call of the optimiser does not touch.
otherVars == <<scrapeVars, appVars>>
OthersIdle == ScrapeIdle /\ AppIdle


\* A call run_optimization(prices, ratings, cost, max_theoretical_demand).
InitRunOptimization ==
    /\ entry = "run_optimization"
    /\ prices \in SeqsUpTo(PriceVals, MaxLen)
    /\ ratings \in SeqsUpTo(RatingVals, MaxLen)
    /\ cost \in {None} \cup {Some(c) : c \in CostVals}
    /\ max_theoretical_demand \in {None} \cup {Some(d) : d \in DemandVals}
    /\ pc = "run_optimization"
    /\ params = None /\ func = NoFunc
    /\ low = 0 /\ high = 0 /\ tol = Zero
    /\ SearchIdle
    /\ result = None

\* The tolerances of a direct search: -1.0, 0.0, 0.001 and 0.2
TolVals == {FromInt(-1), Zero, FromRatio(1, 1000), FromRatio(1, 5)}
\* The slopes b_d of a direct search: 0.0 and 10.0
SlopeVals == {Zero, FromInt(10)}
\* The costs C of a direct search: 0.0 and 4.0
SearchCostVals == {Zero, FromInt(4)}

\* A call golden_section_search(func, a, b, tol) of a profit function.
InitSearch ==
    /\ entry = "golden_section_search"
    /\ prices = <<>> /\ ratings = <<>> /\ cost = None
    /\ max_theoretical_demand = None
    /\ pc = "gss_enter"
    /\ params = None
    /\ func \in [C : SearchCostVals,
                 a_d : DemandVals,
                 b_d : SlopeVals]
    /\ low \in BracketVals
    /\ high \in BracketVals
    /\ tol \in TolVals
    /\ SearchIdle
    /\ result = None

(***************************************************************************)
(* run_optimization, up to the call of golden_section_search               *)
(***************************************************************************)
\* The literal 0.7 of "min(prices) * 0.7"
DefaultCostFactor == FromRatio(CostTenths, 10)

RunOptimization ==
    /\ pc = "run_optimization"
    /\ LET range == get_price_range(prices)
           p == estimate_demand_parameters(prices, ratings, max_theoretical_demand)
       IN  IF p = None
           THEN \* "if not params: return None"
                /\ result' = None
                /\ pc' = "done"
                /\ UNCHANGED <<params, func, low, high, tol>>
           ELSE /\ params' = p
                /\ func' = [C |-> IF cost = None
                                  THEN IF prices # <<>>
                                       THEN DblMul(FromInt(SeqMin(prices)), DefaultCostFactor)
                                       ELSE FromInt(FallbackCost)
                                  ELSE FromInt(Val(cost)),
                            a_d |-> Val(p).a_d,
                            b_d |-> Val(p).b_d]
                /\ low' = range[1]
                /\ high' = range[2]
                /\ tol' = DefaultTol
                /\ pc' = "gss_enter"
                /\ UNCHANGED result
    /\ UNCHANGED <<entry, prices, ratings, cost, max_theoretical_demand,
                   a, b, x1, x2, f1, f2, iteration, evals, gss_invoked, gss_result>>
    /\ UNCHANGED otherVars

(***************************************************************************)
(* golden_section_search                                                   *)
(***************************************************************************)
\* The seeds: the two interior points and their values.
GssEnter ==
    /\ pc = "gss_enter"
    /\ gss_invoked' = TRUE
    /\ iteration' = 0
    /\ a' = FromInt(low)
    /\ b' = FromInt(high)
    /\ x1' = InteriorLow(a', b')
    /\ x2' = InteriorHigh(a', b')
    /\ f1' = profit_function(func, x1')
    /\ f2' = profit_function(func, x2')
    /\ evals' = evals + 2
    /\ pc' = "gss_loop"
    /\ UNCHANGED <<entry, prices, ratings, cost, max_theoretical_demand, params,
                   func, low, high, tol, gss_result, result>>
    /\ UNCHANGED otherVars

\* One iteration of the while loop that forgets "f2 = f1" when it shrinks
\* from the right.
GssIterate_StaleValue ==
    /\ pc = "gss_loop"
    /\ LoopCondition(a, b, tol, iteration)
    /\ iteration' = iteration + 1
    /\ IF ShrinkFromRight(f1, f2)
       THEN /\ b' = x2
            /\ x2' = x1
            /\ f2' = f2
            /\ x1' = InteriorLow(a, b')
            /\ f1' = profit_function(func, x1')
            /\ a' = a
       ELSE /\ a' = x1
            /\ x1' = x2
            /\ f1' = f2
            /\ x2' = InteriorHigh(a', b)
            /\ f2' = profit_function(func, x2')
            /\ b' = b
    /\ evals' = evals + 1
    /\ UNCHANGED <<entry, prices, ratings, cost, max_theoretical_demand, pc,
                   params, func, low, high, tol, gss_invoked, gss_result, result>>
    /\ UNCHANGED otherVars

\* One iteration of the while loop.
GssIterate ==
    /\ pc = "gss_loop"
    /\ LoopCondition(a, b, tol, iteration)
    /\ iteration' = iteration + 1
    /\ IF ShrinkFromRight(f1, f2)
       THEN /\ b' = x2
            /\ x2' = x1
            /\ f2' = f1
            /\ x1' = InteriorLow(a, b')
            /\ f1' = profit_function(func, x1')
            /\ a' = a
       ELSE /\ a' = x1
            /\ x1' = x2
            /\ f1' = f2
            /\ x2' = InteriorHigh(a', b)
            /\ f2' = profit_function(func, x2')
            /\ b' = b
    /\ evals' = evals + 1
    /\ UNCHANGED <<entry, prices, ratings, cost, max_theoretical_demand, pc,
                   params, func, low, high, tol, gss_invoked, gss_result, result>>
    /\ UNCHANGED otherVars

\* The loop has ended: the midpoint, its value and the iteration count.
GssReturn ==
    /\ pc = "gss_loop"
    /\ ~LoopCondition(a, b, tol, iteration)
    /\ LET optimal_x == Midpoint(a, b)
       IN  gss_result' = Some(<<optimal_x, profit_function(func, optimal_x), iteration>>)
    /\ evals' = evals + 1
    /\ pc' = IF entry = "golden_section_search" THEN "done" ELSE "gss_returned"
    /\ UNCHANGED <<entry, prices, ratings, cost, max_theoretical_demand, params,
                   func, low, high, tol, a, b, x1, x2, f1, f2, iteration,
                   gss_invoked, result>>
    /\ UNCHANGED otherVars

(***************************************************************************)
(* run_optimization, after the search                                      *)
(***************************************************************************)
RunOptimizationFinish ==
    /\ pc = "gss_returned"
    /\ LET r == Val(gss_result)
       IN  result' = Some([optimum_price |-> r[1],
                           maximum_profit |-> r[2],
                           estimated_demand |-> talep_fonksiyonu(r[1], func.a_d, func.b_d),
                           iterations |-> r[3],
                           demand_parameters |-> Val(params),
                           price_range |-> get_price_range(prices),
                           cost |-> func.C])
    /\ pc' = "done"
    /\ UNCHANGED <<entry, prices, ratings, cost, max_theoretical_demand, params,
                   func, low, high, tol, a, b, x1, x2, f1, f2, iteration, evals,
                   gss_invoked, gss_result>>
    /\ UNCHANGED otherVars

Init == (InitRunOptimization \/ InitSearch) /\ OthersIdle

Next ==
    \/ RunOptimization
    \/ GssEnter
    \/ GssIterate
    \/ GssReturn
    \/ RunOptimizationFinish

Spec == Init /\ [][Next]_vars

\* Calls run_optimization(prices, ratings, cost) of large sample lists, with
\* max_theoretical_demand left out: sample counts on both sides of the count
\* at which a tenth of the count passes the floor of 100.
SampleCounts == {1, 10, 999} \cup {1000 + 5 * k : k \in 0..MaxCountSteps}

\* A list of n samples: v everywhere but the last entry.
SampleList(n, v, last) == [i \in 1..n |-> IF i = n THEN last ELSE v]

SampleInit ==
    /\ entry = "run_optimization"
    /\ prices \in {SampleList(n, 2, p) : n \in SampleCounts, p \in {5, 8}}
    /\ ratings \in {SampleList(Len(prices), 2, r) : r \in {1, 2}}
    /\ cost \in {None, Some(4)}
    /\ max_theoretical_demand = None
    /\ pc = "run_optimization"
    /\ params = None /\ func = NoFunc
    /\ low = 0 /\ high = 0 /\ tol = Zero
    /\ SearchIdle
    /\ result = None
    /\ OthersIdle

SampleSpec == SampleInit /\ [][Next]_vars

\* Calls of golden_section_search alone, each running to its return.
SearchInit == InitSearch /\ OthersIdle

SearchNext ==
    \/ GssEnter
    \/ GssIterate
    \/ GssReturn

\* A statement of the search is executed. The interpreter runs a call until
\* it returns: a step of SearchNext is possible exactly while pc is gss_enter
\* or gss_loop (GssIterate and GssReturn are guarded by LoopCondition and by
\* its negation), and every such step evaluates the function, once or twice.
SearchStep ==
    /\ pc \in {"gss_enter", "gss_loop"}
    /\ evals' \in {evals + 1, evals + 2}

SearchSpec == SearchInit /\ [][SearchNext]_vars /\ WF_evals(SearchStep)

(***************************************************************************)
(* scrape.py: search_product                                               *)
(***************************************************************************)
\* What product.find(...) gives for one field of a product element: no
\* element (or an empty text), a text float() parses to val, or a text
\* float() raises on.
NoElement == [kind |-> "none", val |-> 0]
Parsable(v) == [kind |-> "number", val |-> v]
Unparsable == [kind |-> "garbage", val |-> 0]

ScrapedRatingVals == {0, 2, 4}
RatingFields == {NoElement, Unparsable} \cup {Parsable(v) : v \in ScrapedRatingVals}
PriceFields == {NoElement, Unparsable} \cup {Parsable(v) : v \in PriceVals}
ProductElements == [rating : RatingFields, price : PriceFields]

\* np.mean(valid_ratings) if valid_ratings else 0
MeanRating(rs) ==
    LET valid == {i \in DOMAIN rs : rs[i] > 0}
    IN  IF valid = {} THEN Zero
        ELSE FromRatio(SumOver([i \in valid |-> rs[i]], valid, Len(rs)), Cardinality(valid))

\* [rating if rating > 0 else mean_rating for rating in ratings]
PeopleRate(rs) ==
    [i \in DOMAIN rs |-> IF rs[i] > 0 THEN FromInt(rs[i]) ELSE MeanRating(rs)]

ScrapeInit ==
    /\ scrape_pc = "fetch" /\ pro = <<>> /\ product = 0
    /\ scraped_ratings = <<>> /\ scraped_prices = <<>> /\ search_result = None
    /\ OptIdle
    /\ AppIdle

\* The requests and the pagination: the product elements of all pages.
ScrapeFetch ==
    /\ scrape_pc = "fetch"
    /\ pro' \in SeqsUpTo(ProductElements, MaxProducts)
    /\ product' = 1
    /\ scrape_pc' = "extract"
    /\ UNCHANGED <<scraped_ratings, scraped_prices, search_result>>
    /\ UNCHANGED <<optVars, appVars>>

\* The first request raises: "except Exception: return [], [], {...}".
ScrapeFetchFails ==
    /\ scrape_pc = "fetch"
    /\ search_result' = Some([prices |-> <<>>, ratings |-> <<>>])
    /\ scrape_pc' = "done"
    /\ UNCHANGED <<pro, product, scraped_ratings, scraped_prices>>
    /\ UNCHANGED <<optVars, appVars>>

\* One pass of "for product in pro": the rating, then the price; a float()
\* that raises ends the pass where it is.
ScrapeExtract ==
    /\ scrape_pc = "extract"
    /\ product <= Len(pro)
    /\ LET e == pro[product]
       IN  IF e.rating.kind = "garbage"
           THEN UNCHANGED <<scraped_ratings, scraped_prices>>
           ELSE /\ scraped_ratings' =
                       Append(scraped_ratings,
                              IF e.rating.kind = "number" THEN e.rating.val ELSE 0)
                /\ scraped_prices' =
                       IF e.price.kind = "number"
                       THEN Append(scraped_prices, e.price.val)
                       ELSE scraped_prices
    /\ product' = product + 1
    /\ UNCHANGED <<scrape_pc, pro, search_result>>
    /\ UNCHANGED <<optVars, appVars>>

\* After the loop: the mean rating replaces the ratings that are not > 0.
ScrapeReturn ==
    /\ scrape_pc = "extract"
    /\ product > Len(pro)
    /\ search_result' = Some([prices |-> [i \in DOMAIN scraped_prices |->
                                            FromInt(scraped_prices[i])],
                              ratings |-> PeopleRate(scraped_ratings)])
    /\ scrape_pc' = "done"
    /\ UNCHANGED <<pro, product, scraped_ratings, scraped_prices>>
    /\ UNCHANGED <<optVars, appVars>>

ScrapeNext ==
    \/ ScrapeFetch
    \/ ScrapeFetchFails
    \/ ScrapeExtract
    \/ ScrapeReturn

ScrapeSpec == ScrapeInit /\ [][ScrapeNext]_vars

\* C7: whichever product elements carry a rating, a price or a value that
\* fails to parse, search_product returns prices and ratings of one length.
C7_SameLength ==
    search_result # None =>
        Len(Val(search_result).prices) = Len(Val(search_result).ratings)

(***************************************************************************)
(* app.py: optimize(), run_background_task and the registry "tasks"        *)
(***************************************************************************)
Requests == 1..MaxRequests
ProductNames == {"", "tv", "pc"}

\* The posted form: the name, and the cost and demand fields int() is applied to.
Forms == [name : ProductNames,
          cost : {Unparsable, Parsable(4)},
          demand : {Parsable(0), Parsable(50)}]

\* task_id = "<timestamp>_<name>": the requests of the model arrive within
\* one second, so that two ids differ exactly when the names differ.
TaskId(r) == form[r].name

\* Python binds the call run_optimization(prices, cost=..., max_theoretical_demand=...)
\* only if every parameter without a default is supplied; otherwise TypeError.
RequiredParameters == {"prices", "ratings"}
SuppliedArguments == {"prices", "cost", "max_theoretical_demand"}
CallBinds == RequiredParameters \subseteq SuppliedArguments

\* tasks[id] = record
Store(reg, id, record) ==
    [k \in DOMAIN reg \cup {id} |-> IF k = id THEN record ELSE reg[k]]

\* tasks[id][...] = ... for the fields of the record changes
Update(reg, id, changes) ==
    [reg EXCEPT ![id] = [f \in DOMAIN reg[id] |->
                            IF f \in DOMAIN changes THEN changes[f] ELSE reg[id][f]]]

\* api_task_status: the status a caller polling for id is shown
api_task_status(id) ==
    IF id \notin DOMAIN tasks THEN "Task not found" ELSE tasks[id].status

AppInit ==
    /\ tasks = <<>>
    /\ form \in [Requests -> Forms]
    /\ handler_pc = [r \in Requests |-> "request"]
    /\ worker_pc = [r \in Requests |-> "not_started"]
    /\ worker_data = [r \in Requests |-> None]
    /\ worker_error = [r \in Requests |-> ""]
    /\ OptIdle
    /\ ScrapeIdle

\* optimize(), up to thread.start(): the form is read, the id is made and
\* the worker thread is started.
Optimize(r) ==
    /\ handler_pc[r] = "request"
    /\ IF form[r].cost.kind # "number" \/ form[r].demand.kind # "number"
       THEN \* int() raises: "except Exception: ... redirect(url_for('index'))"
            /\ handler_pc' = [handler_pc EXCEPT ![r] = "redirected_to_index"]
            /\ UNCHANGED worker_pc
       ELSE IF form[r].name = ""
       THEN /\ handler_pc' = [handler_pc EXCEPT ![r] = "redirected_to_index"]
            /\ UNCHANGED worker_pc
       ELSE /\ handler_pc' = [handler_pc EXCEPT ![r] = "store"]
            /\ worker_pc' = [worker_pc EXCEPT ![r] = "start"]
    /\ UNCHANGED <<tasks, form, worker_data, worker_error>>
    /\ UNCHANGED <<optVars, scrapeVars>>

\* optimize(), after thread.start(): the entry is stored with status 'running'.
OptimizeStore(r) ==
    /\ handler_pc[r] = "store"
    /\ tasks' = Store(tasks, TaskId(r),
                      [status |-> "running", product_name |-> form[r].name,
                       result |-> None, error |-> "", product_count |-> None])
    /\ handler_pc' = [handler_pc EXCEPT ![r] = "redirected_to_status"]
    /\ UNCHANGED <<form, worker_pc, worker_data, worker_error>>
    /\ UNCHANGED <<optVars, scrapeVars>>

\* run_background_task: tasks[task_id]['status'] = 'searching', a KeyError
\* when the entry is not there.
WorkerStart(r) ==
    /\ worker_pc[r] = "start"
    /\ IF TaskId(r) \in DOMAIN tasks
       THEN /\ tasks' = Update(tasks, TaskId(r), [status |-> "searching"])
            /\ worker_pc' = [worker_pc EXCEPT ![r] = "search"]
            /\ UNCHANGED worker_error
       ELSE /\ worker_pc' = [worker_pc EXCEPT ![r] = "except"]
            /\ worker_error' = [worker_error EXCEPT ![r] = "KeyError"]
            /\ UNCHANGED tasks
    /\ UNCHANGED <<form, handler_pc, worker_data>>
    /\ UNCHANGED <<optVars, scrapeVars>>

\* What search_product returns in the model: nothing; ratings without a
\* price; one product without a rating above 0; two rated products.
SearchOutcomes ==
    {[prices |-> <<>>, ratings |-> <<>>],
     [prices |-> <<>>, ratings |-> <<2>>],
     [prices |-> <<5>>, ratings |-> <<0>>],
     [prices |-> <<5, 8>>, ratings |-> <<2, 1>>]}

\* prices, ratings, scrape_data = search_product(product_name)
WorkerSearch(r) ==
    /\ worker_pc[r] = "search"
    /\ \E data \in SearchOutcomes :
          worker_data' = [worker_data EXCEPT ![r] = Some(data)]
    /\ worker_pc' = [worker_pc EXCEPT ![r] = "check"]
    /\ UNCHANGED <<tasks, form, handler_pc, worker_error>>
    /\ UNCHANGED <<optVars, scrapeVars>>

\* "if not prices or not ratings: tasks[task_id]['status'] = 'failed'", else
\* "tasks[task_id]['status'] = 'optimizing'".
WorkerCheck(r) ==
    /\ worker_pc[r] = "check"
    /\ IF Val(worker_data[r]).prices = <<>> \/ Val(worker_data[r]).ratings = <<>>
       THEN /\ tasks' = Update(tasks, TaskId(r), [status |-> "failed"])
            /\ worker_pc' = [worker_pc EXCEPT ![r] = "no_data"]
       ELSE /\ tasks' = Update(tasks, TaskId(r), [status |-> "optimizing"])
            /\ worker_pc' = [worker_pc EXCEPT ![r] = "count"]
    /\ UNCHANGED <<form, handler_pc, worker_data, worker_error>>
    /\ UNCHANGED <<optVars, scrapeVars>>

\* "tasks[task_id]['error'] = 'No product data found'; return"
WorkerNoData(r) ==
    /\ worker_pc[r] = "no_data"
    /\ tasks' = Update(tasks, TaskId(r), [error |-> "No product data found"])
    /\ worker_pc' = [worker_pc EXCEPT ![r] = "returned"]
    /\ UNCHANGED <<form, handler_pc, worker_data, worker_error>>
    /\ UNCHANGED <<optVars, scrapeVars>>

\* "tasks[task_id]['product_count'] = len(prices)"
WorkerCount(r) ==
    /\ worker_pc[r] = "count"
    /\ tasks' = Update(tasks, TaskId(r),
                       [product_count |-> Some(Len(Val(worker_data[r]).prices))])
    /\ worker_pc' = [worker_pc EXCEPT ![r] = "optimize"]
    /\ UNCHANGED <<form, handler_pc, worker_data, worker_error>>
    /\ UNCHANGED <<optVars, scrapeVars>>

\* run_optimization(prices, ratings, cost, max_theoretical_demand) returns a
\* record on the lists search_product returned to request r.
Optimizable(r) ==
    /\ worker_data[r] # None
    /\ estimate_demand_parameters(Val(worker_data[r]).prices,
                                  Val(worker_data[r]).ratings,
                                  Some(form[r].demand.val)) # None

\* results = run_optimization(prices, cost=..., max_theoretical_demand=...):
\* the call does not bind and raises.  Were it to bind, the rest of the try
\* block would follow.
WorkerOptimize(r) ==
    /\ worker_pc[r] = "optimize"
    /\ IF ~CallBinds
       THEN /\ worker_pc' = [worker_pc EXCEPT ![r] = "except"]
            /\ worker_error' = [worker_error EXCEPT ![r] = "TypeError"]
            /\ UNCHANGED tasks
       ELSE /\ LET results == IF Optimizable(r) THEN Some("results") ELSE None
                 IN  tasks' = IF results = None
                              THEN Update(tasks, TaskId(r),
                                          [status |-> "failed", error |-> "Optimization failed"])
                              ELSE Update(tasks, TaskId(r),
                                          [status |-> "completed", result |-> results])
            /\ worker_pc' = [worker_pc EXCEPT ![r] = "returned"]
            /\ UNCHANGED worker_error
    /\ UNCHANGED <<form, handler_pc, worker_data>>
    /\ UNCHANGED <<optVars, scrapeVars>>

\* "except Exception as e: ... if task_id in tasks:"
WorkerExcept(r) ==
    /\ worker_pc[r] = "except"
    /\ worker_pc' = [worker_pc EXCEPT ![r] = IF TaskId(r) \in DOMAIN tasks
                                             THEN "except_status" ELSE "returned"]
    /\ UNCHANGED <<tasks, form, handler_pc, worker_data, worker_error>>
    /\ UNCHANGED <<optVars, scrapeVars>>

\* "tasks[task_id]['status'] = 'failed'"
WorkerExceptStatus(r) ==
    /\ worker_pc[r] = "except_status"
    /\ tasks' = Update(tasks, TaskId(r), [status |-> "failed"])
    /\ worker_pc' = [worker_pc EXCEPT ![r] = "except_error"]
    /\ UNCHANGED <<form, handler_pc, worker_data, worker_error>>
    /\ UNCHANGED <<optVars, scrapeVars>>

\* "tasks[task_id]['error'] = str(e)"
WorkerExceptError(r) ==
    /\ worker_pc[r] = "except_error"
    /\ tasks' = Update(tasks, TaskId(r), [error |-> worker_error[r]])
    /\ worker_pc' = [worker_pc EXCEPT ![r] = "returned"]
    /\ UNCHANGED <<form, handler_pc, worker_data, worker_error>>
    /\ UNCHANGED <<optVars, scrapeVars>>

AppNext ==
    \E r \in Requests :
        \/ Optimize(r)
        \/ OptimizeStore(r)
        \/ WorkerStart(r)
        \/ WorkerSearch(r)
        \/ WorkerCheck(r)
        \/ WorkerNoData(r)
        \/ WorkerCount(r)
        \/ WorkerOptimize(r)
        \/ WorkerExcept(r)
        \/ WorkerExceptStatus(r)
        \/ WorkerExceptError(r)

AppSpec == AppInit /\ [][AppNext]_vars

\* Every thread of every request has run to its end.
Quiescent ==
    \A r \in Requests :
        /\ handler_pc[r] \in {"redirected_to_index", "redirected_to_status"}
        /\ worker_pc[r] \in {"not_started", "returned"}

\* C8: every request optimize() accepts gets a registry entry that reaches a
\* terminal status under every interleaving of the handler and the worker
\* thread: once all threads have run to their end, no entry is left in a
\* status that is not 'completed' or 'failed'.
C8_EveryTaskEnds ==
    Quiescent =>
        \A r \in Requests :
            handler_pc[r] = "redirected_to_status" =>
                api_task_status(TaskId(r)) \in {"completed", "failed"}

\* No other request has the task id of request r.
AloneWithId(r) == \A q \in Requests \ {r} : TaskId(q) # TaskId(r)

\* C12: a background task whose search_product call returned non-empty,
\* equal-length prices and ratings on which run_optimization produces a
\* record ends, once run_background_task has returned, with its status
\* 'completed' and its 'result' field set to the record.
C12_FoundDataCompletes ==
    \A r \in Requests :
        (/\ worker_pc[r] = "returned"
         /\ Optimizable(r)
         /\ AloneWithId(r))
            => /\ api_task_status(TaskId(r)) = "completed"
               /\ tasks[TaskId(r)].result # None

(***************************************************************************)
(* Properties of the optimisation pipeline                                 *)
(***************************************************************************)
\* The prices lo, lo + 0.1, lo + 0.2, ... up to hi
PriceGrid(lo, hi) == {FromRatio(10 * lo + k, 10) : k \in 0..(10 * (hi - lo))}
\* One unit of profit: far more than the tolerance can change the profit.
ProfitSlack == One

Returned == gss_result # None
ReturnedX == Val(gss_result)[1]
ReturnedIterations == Val(gss_result)[3]

\* C1: the record run_optimization returns holds a price that maximises the
\* profit over the price bracket: no price of the bracket has a profit that
\* exceeds the returned maximum_profit by more than a tolerance-sized error.
C1_ProfitMaximal ==
    (entry = "run_optimization" /\ pc = "done" /\ result # None) =>
        \A p \in PriceGrid(low, high) :
            ~DblLess(DblAdd(Val(result).maximum_profit, ProfitSlack),
                     profit_function(func, p))

\* C2: golden_section_search terminates for every function, bracket and
\* tolerance, and the iteration count it returns never exceeds 100.
C2_SearchTerminates ==
    /\ [](iteration <= MaxIter)
    /\ [](Returned => ReturnedIterations <= MaxIter)
    /\ [](gss_invoked => <>Returned)

\* A search that stopped at the cap with a bracket still wider than the tolerance.
C2_Witness ==
    /\ Returned
    /\ ReturnedIterations = MaxIter
    /\ DblLess(tol, DblAbs(DblSub(b, a)))

\* C3: for a degenerate bracket low = high = p (and a tolerance that is not
\* negative) the search performs no iteration and returns optimal_x = p with
\* iterations = 0.
C3_DegenerateBracket ==
    (gss_invoked /\ low = high /\ ~DblLess(tol, Zero)) =>
        /\ iteration = 0
        /\ Returned => (ReturnedX = FromInt(low) /\ ReturnedIterations = 0)

\* run_optimization on samples of one distinct price has returned.
C3_Witness ==
    /\ entry = "run_optimization"
    /\ pc = "done"
    /\ Len(prices) = 2
    /\ low = high
    /\ Returned
    /\ Val(result).optimum_price = FromInt(low)
    /\ Val(result).iterations = 0

InvalidSamples == prices = <<>> \/ ratings = <<>> \/ Len(prices) # Len(ratings)

\* C4: when prices or ratings is empty or their lengths differ,
\* estimate_demand_parameters returns None and run_optimization returns None
\* without entering golden_section_search: there is no partial result.
C4_InvalidSamplesNoResult ==
    (entry = "run_optimization" /\ InvalidSamples) =>
        /\ estimate_demand_parameters(prices, ratings, max_theoretical_demand) = None
        /\ pc \in {"run_optimization", "done"}
        /\ ~gss_invoked
        /\ evals = 0
        /\ result = None

\* run_optimization has returned on two non-empty lists of different lengths.
C4_Witness ==
    /\ entry = "run_optimization"
    /\ pc = "done"
    /\ prices # <<>> /\ ratings # <<>>
    /\ Len(prices) # Len(ratings)
    /\ result = None

\* C5: every record estimate_demand_parameters returns has a_d > 0 and
\* b_d >= 0, whatever max_theoretical_demand is supplied or defaulted.
C5_ParameterSigns ==
    params # None => (Val(params).a_d > 0 /\ ~DblLess(Val(params).b_d, Zero))

\* The prices the demand function is probed at: those of the search, and
\* 0, 6 and 12.
DemandProbes == {a, b, x1, x2} \cup {FromInt(6 * k) : k \in 0..2}

\* C6: talep_fonksiyonu never returns a negative value and returns exactly 0
\* for every price above a_d / b_d when b_d > 0; the estimated_demand of
\* every result record is >= 0.
C6_DemandFloor ==
    /\ \A p \in DemandProbes :
          LET demand == talep_fonksiyonu(p, func.a_d, func.b_d)
          IN  /\ ~DblLess(demand, Zero)
              /\ (DblLess(Zero, func.b_d)
                    /\ DblLess(FromInt(func.a_d), DblMul(func.b_d, p))) =>
                     IsZero(demand)
    /\ result # None => ~DblLess(Val(result).estimated_demand, Zero)

\* A result whose optimum price lies above a_d / b_d: its demand is 0.
C6_Witness ==
    /\ result # None
    /\ DblLess(Zero, func.b_d)
    /\ func.a_d > 0
    /\ DblLess(FromInt(func.a_d), DblMul(func.b_d, Val(result).optimum_price))
    /\ IsZero(Val(result).estimated_demand)

\* C9: at the start of every iteration f1 = func(x1) and f2 = func(x2), every
\* iteration evaluates func once, and a call that returns iteration count n
\* has evaluated func n + 3 times.
C9_OneEvaluationPerIteration ==
    /\ pc = "gss_loop" =>
          /\ f1 = profit_function(func, x1)
          /\ f2 = profit_function(func, x2)
          /\ evals = iteration + 2
    /\ Returned => evals = ReturnedIterations + 3

\* A search that returned after shrinking from both sides.
C9_Witness ==
    /\ Returned
    /\ ReturnedIterations >= 3
    /\ DblLess(FromInt(low), a) /\ DblLess(b, FromInt(high))
    /\ evals = ReturnedIterations + 3

\* C10: an iteration moves one bound: if f(x1) > f(x2) the upper bound becomes
\* x2 and the lower bound is unchanged; otherwise, ties included, the lower
\* bound becomes x1 and the upper bound is unchanged.  With a tolerance of at
\* least the default 1e-3 the bound that is set changes its value, so that
\* exactly one of the two bounds has a new value.
C10_OneBoundMoves ==
    [][(pc = "gss_loop" /\ iteration' = iteration + 1) =>
          /\ IF DblLess(f2, f1)
             THEN b' = x2 /\ a' = a
             ELSE a' = x1 /\ b' = b
          /\ ~DblLess(tol, DefaultTol) => ((a' # a) # (b' # b))]_vars

\* A search of a function that is 0 everywhere: every comparison is a tie, and
\* only the lower bound has moved.
C10_Witness ==
    /\ pc = "gss_loop"
    /\ func.a_d = 0
    /\ iteration >= 2
    /\ DblEqual(f1, f2)
    /\ DblLess(FromInt(low), a)
    /\ b = FromInt(high)

(***************************************************************************)
(* Claims about the default of max_theoretical_demand                      *)
(***************************************************************************)
\* The estimator has returned a record for a call that left
\* max_theoretical_demand out.
DefaultApplied == params # None /\ max_theoretical_demand = None

\* C11 as stated: with max_theoretical_demand not supplied, a_d is
\* max(100, 0.1 * sample_count) for every sample count, so ten times a_d is
\* max(1000, sample_count).
C11_DefaultIsTenth ==
    DefaultApplied =>
        DemandDivisor * Val(params).a_d
            = Max(DemandDivisor * FloorDemand, Len(prices))

\* C11, amended: with max_theoretical_demand not supplied, a_d is the whole
\* number max(100, floor(0.1 * sample_count)): the integer k, at least 100,
\* with 10 * k <= max(1000, sample_count) < 10 * (k + 1).
C11_DefaultIsTruncatedTenth ==
    DefaultApplied =>
        LET k == Val(params).a_d
            n == Max(DemandDivisor * FloorDemand, Len(prices))
        IN  /\ k >= FloorDemand
            /\ DemandDivisor * k <= n
            /\ n < DemandDivisor * (k + 1)

\* A call of 1015 samples has returned with a_d = 101, not 101.5.
C11_Witness ==
    /\ pc = "done"
    /\ result # None
    /\ DefaultApplied
    /\ Len(prices) = 1015
    /\ Val(params).a_d = 101
    /\ Val(result).demand_parameters.a_d = 101

====
